---- MODULE Spec2Model ----
(***************************************************************************)
(* Model of the pycsv package (src/src/pycsv/__init__.py): the CSV grid,   *)
(* its parser CSV.from_str, its serializer CSV.to_str / str_from_cell and  *)
(* the module-level switches compile_regex() and strict_tables.            *)
(*                                                                         *)
(* A text is a sequence of one-character strings.  A cell is a record      *)
(* [t, v, n]: t is the Python type of the cell, v its characters when it   *)
(* is a str, n its number when it is an int or a bool.                     *)
(***************************************************************************)
EXTENDS Integers, Sequences, FiniteSets, TLC

\* ------------------------------------------------------------------------
\* Characters
\* ------------------------------------------------------------------------
COMMA == ","
NL    == "\n"
QUOTE == "\""
SEMI  == ";"
PIPE  == "|"
APOS  == "'"

\* <<cellend, rowend, escape>>: the keyword defaults of CSV.__init__ / from_str
DefaultTriple == <<COMMA, NL, QUOTE>>
\* the custom configuration of the package's documentation
CustomTriple  == <<SEMI, PIPE, APOS>>
Triples       == {DefaultTriple, CustomTriple}

\* ord(): the code points Python compares characters by
Ord(ch) ==
  CASE ch = NL    -> 10
    [] ch = QUOTE -> 34
    [] ch = APOS  -> 39
    [] ch = COMMA -> 44
    [] ch = "-"   -> 45
    [] ch = "0"   -> 48
    [] ch = "1"   -> 49
    [] ch = "2"   -> 50
    [] ch = "3"   -> 51
    [] ch = "4"   -> 52
    [] ch = "5"   -> 53
    [] ch = "6"   -> 54
    [] ch = "7"   -> 55
    [] ch = "8"   -> 56
    [] ch = "9"   -> 57
    [] ch = SEMI  -> 59
    [] ch = "F"   -> 70
    [] ch = "T"   -> 84
    [] ch = "a"   -> 97
    [] ch = "e"   -> 101
    [] ch = "l"   -> 108
    [] ch = "r"   -> 114
    [] ch = "s"   -> 115
    [] ch = "u"   -> 117
    [] ch = PIPE  -> 124

\* ------------------------------------------------------------------------
\* Bounds
\* ------------------------------------------------------------------------
MaxLen  == 4      \* longest text handed to from_str
MaxRows == 2      \* most rows of a grid handed to CSV(...)
MaxCols == 2      \* most cells of a row handed to CSV(...)
MaxCells == 3     \* most cells of a grid handed to CSV(...)
MaxToStr == 2     \* most to_str calls on one grid
MaxOps == 2       \* most accessor calls that change one grid

\* ------------------------------------------------------------------------
\* Generic helpers
\* ------------------------------------------------------------------------
Max(S) == CHOOSE x \in S : \A y \in S : y <= x

SubText(s, from, to) == [i \in 1..(to - from + 1) |-> s[from + i - 1]]

RECURSIVE Join(_, _)
\* sep.join(parts) for texts
Join(parts, sep) ==
  IF Len(parts) = 0 THEN <<>>
  ELSE IF Len(parts) = 1 THEN parts[1]
  ELSE parts[1] \o sep \o Join(Tail(parts), sep)

\* ------------------------------------------------------------------------
\* The tokenizer: re.finditer(CSV_REGEX, data)
\*   (?:(?P<cell>(e.+e)|(?:[^ce r]*)))(?P<term>[cr]|$)
\* ------------------------------------------------------------------------
\* '.' without re.DOTALL matches everything but a newline
Dot(ch) == ch # NL

\* '$' without re.MULTILINE: at the end, or just before a final newline
AtDollar(data, p) ==
  \/ p = Len(data) + 1
  \/ p = Len(data) /\ data[p] = NL

\* (?P<term>[cr]|$) tried at position p
TermOK(data, p, c, r) ==
  \/ p <= Len(data) /\ data[p] \in {c, r}
  \/ AtDollar(data, p)

TermLen(data, p, c, r) == IF p <= Len(data) /\ data[p] \in {c, r} THEN 1 ELSE 0

\* length of the longest run of characters satisfying P that starts at s
RunLen(data, s, P(_)) ==
  Max({k \in 0..(Len(data) - s + 1) : \A i \in 0..(k - 1) : P(data[s + i])})

\* One match attempt of CSV_REGEX anchored at s; must is sre's must_advance
\* (the match may not be empty).  Returns the match as
\* [found, cell, term, end]; backtracking order is the regex engine's:
\* the quoted alternative with the longest .+ first, then the unquoted run.
MatchAt(data, s, must, c, r, e) ==
  LET dots == RunLen(data, s + 1, Dot)
      N1   == IF s <= Len(data) /\ data[s] = e
              THEN {n \in 1..dots :
                      /\ s + 1 + n <= Len(data)
                      /\ data[s + 1 + n] = e
                      /\ TermOK(data, s + n + 2, c, r)}
              ELSE {}
      Plain(ch) == ch \notin {c, e, r}
      kmax == RunLen(data, s, Plain)
      K2   == {k \in 0..kmax :
                 /\ TermOK(data, s + k, c, r)
                 /\ (must => k + TermLen(data, s + k, c, r) > 0)}
      Mk(len) == LET tl == TermLen(data, s + len, c, r)
                 IN [found |-> TRUE,
                     cell  |-> SubText(data, s, s + len - 1),
                     term  |-> SubText(data, s + len, s + len + tl - 1),
                     end   |-> s + len + tl]
  IN IF N1 # {} THEN Mk(Max(N1) + 2)
     ELSE IF K2 # {} THEN Mk(Max(K2))
     ELSE [found |-> FALSE, cell |-> <<>>, term |-> <<>>, end |-> s]

RECURSIVE Scan(_, _, _, _, _, _)
\* the scanner behind finditer: leftmost matches, never overlapping
Scan(data, s, must, c, r, e) ==
  IF s > Len(data) + 1 THEN <<>>
  ELSE LET m == MatchAt(data, s, must, c, r, e)
       IN IF m.found
          THEN <<[cell |-> m.cell, term |-> m.term]>>
                 \o Scan(data, m.end, m.end = s, c, r, e)
          ELSE Scan(data, s + 1, FALSE, c, r, e)

\* _csv_from_str_regex / _repl_csv_from_str_regex: the same pattern, built
\* from the default or from the supplied characters
csv_from_str_regex(data, c, r, e) == Scan(data, 1, FALSE, c, r, e)

\* ------------------------------------------------------------------------
\* Cells and Python's comparisons
\* ------------------------------------------------------------------------
PyNone  == [t |-> "None", v |-> <<>>, n |-> 0]
PyStr(s) == [t |-> "str",  v |-> s,    n |-> 0]
PyInt(i) == [t |-> "int",  v |-> <<>>, n |-> i]
PyBool(b) == [t |-> "bool", v |-> <<>>, n |-> IF b THEN 1 ELSE 0]

IsNum(x) == x.t \in {"int", "bool"}

\* x == y
CellEq(x, y) ==
  IF IsNum(x) /\ IsNum(y) THEN x.n = y.n
  ELSE x.t = y.t /\ x.v = y.v

RECURSIVE TextLess(_, _)
\* str < str: lexicographic by code point
TextLess(a, b) ==
  IF Len(b) = 0 THEN FALSE
  ELSE IF Len(a) = 0 THEN TRUE
  ELSE IF a[1] # b[1] THEN Ord(a[1]) < Ord(b[1])
  ELSE TextLess(Tail(a), Tail(b))

\* x < y for cells: "T", "F", or "E" when Python raises TypeError
CellLess(x, y) ==
  IF IsNum(x) /\ IsNum(y) THEN (IF x.n < y.n THEN "T" ELSE "F")
  ELSE IF x.t = "str" /\ y.t = "str" THEN (IF TextLess(x.v, y.v) THEN "T" ELSE "F")
  ELSE "E"

\* list < list: the first differing pair decides, else the shorter is less
ListLess(a, b) ==
  LET D == {i \in 1..Len(a) : i <= Len(b) /\ ~CellEq(a[i], b[i])}
      first == CHOOSE i \in D : \A j \in D : i <= j
      P == {i \in 1..Len(a) : i <= Len(b)}
  IN IF \E i \in P : ~CellEq(a[i], b[i])
     THEN CellLess(a[first], b[first])
     ELSE IF Len(a) < Len(b) THEN "T" ELSE "F"

RECURSIVE PyMaxFrom(_, _, _)
PyMaxFrom(rows, i, best) ==
  IF i > Len(rows) THEN [err |-> "", val |-> best]
  ELSE LET gt == ListLess(best, rows[i])
       IN IF gt = "E" THEN [err |-> "TypeError", val |-> best]
          ELSE PyMaxFrom(rows, i + 1, IF gt = "T" THEN rows[i] ELSE best)

\* max(rows) of a list of lists
PyMax(rows) ==
  IF Len(rows) = 0 THEN [err |-> "ValueError", val |-> <<>>]
  ELSE PyMaxFrom(rows, 2, rows[1])

RECURSIVE PyMinFrom(_, _, _)
PyMinFrom(rows, i, best) ==
  IF i > Len(rows) THEN [err |-> "", val |-> best]
  ELSE LET lt == ListLess(rows[i], best)
       IN IF lt = "E" THEN [err |-> "TypeError", val |-> best]
          ELSE PyMinFrom(rows, i + 1, IF lt = "T" THEN rows[i] ELSE best)

\* min(rows) of a list of lists
PyMin(rows) ==
  IF Len(rows) = 0 THEN [err |-> "ValueError", val |-> <<>>]
  ELSE PyMinFrom(rows, 2, rows[1])

\* ------------------------------------------------------------------------
\* The grid accessors the constructor uses (indexes are Python's, from 0)
\* ------------------------------------------------------------------------
Nones(k) == [j \in 1..k |-> PyNone]

\* CSV._get_blank_row
get_blank_row(rows) ==
  IF Len(rows) > 0 THEN Nones(Len(rows[1])) ELSE <<PyNone>>

\* CSV._set_column_count
set_column_count(rows, col_count) ==
  LET largest_row == Max({0} \cup {Len(rows[i]) : i \in 1..Len(rows)})
      cc == IF largest_row > col_count THEN largest_row ELSE col_count
  IN [i \in 1..Len(rows) |->
        IF Len(rows[i]) < cc THEN rows[i] \o Nones(cc - Len(rows[i])) ELSE rows[i]]

\* CSV._set_row_count
set_row_count(rows, row_count) ==
  IF row_count > Len(rows)
  THEN rows \o [k \in 1..(row_count - Len(rows)) |-> get_blank_row(rows)]
  ELSE rows

\* the read that never raises, whatever the mode
getitem_cell_lenient(rows, row, col, strict) ==
  IF row > Len(rows) - 1 THEN [err |-> "", val |-> PyNone]
  ELSE IF col > Len(rows[row + 1]) - 1 THEN [err |-> "", val |-> PyNone]
  ELSE [err |-> "", val |-> rows[row + 1][col + 1]]

\* CSV.__getitem__ with a (row, col) key
getitem_cell(rows, row, col, strict) ==
  IF row > Len(rows) - 1
  THEN [err |-> IF strict THEN "IndexError" ELSE "", val |-> PyNone]
  ELSE IF col > Len(rows[row + 1]) - 1
  THEN [err |-> IF strict THEN "IndexError" ELSE "", val |-> PyNone]
  ELSE [err |-> "", val |-> rows[row + 1][col + 1]]

\* CSV.__setitem__ with a (row, col) key; rows is the grid as the call
\* leaves it, also when it raises
setitem_cell(rows, row, col, value, strict) ==
  LET rowOut == row > Len(rows) - 1
      rows1  == IF rowOut /\ ~strict THEN set_row_count(rows, row) ELSE rows
      colOut == Len(rows1) > 0 /\ col > Len(rows1[1]) - 1
      rows2  == IF colOut /\ ~strict THEN set_column_count(rows1, col) ELSE rows1
  IN IF rowOut /\ strict THEN [err |-> "IndexError", rows |-> rows]
     ELSE IF Len(rows1) = 0 THEN [err |-> "IndexError", rows |-> rows1]
     ELSE IF colOut /\ strict THEN [err |-> "IndexError", rows |-> rows1]
     ELSE IF row + 1 > Len(rows2) \/ col + 1 > Len(rows2[row + 1])
     THEN [err |-> "IndexError", rows |-> rows2]
     ELSE [err |-> "",
           rows |-> [rows2 EXCEPT ![row + 1] = [@ EXCEPT ![col + 1] = value]]]

\* CSV.get_col: "IndexError" when a strict read leaves the row, else ""
get_col_err(rows, col_index, strict) ==
  IF \E i \in 1..Len(rows) : getitem_cell(rows, i - 1, col_index, strict).err # ""
  THEN "IndexError" ELSE ""

\* ------------------------------------------------------------------------
\* CSV.__init__: the padding of rows and columns
\* ------------------------------------------------------------------------
RECURSIVE InitColLoopX(_, _, _, _, _)
\* for x in range(range_start, column_discrepency): self[i,x] = None
InitColLoopX(rows, i, x, stop, strict) ==
  IF x >= stop THEN [err |-> "", rows |-> rows]
  ELSE LET w == setitem_cell(rows, i, x, PyNone, strict)
       IN IF w.err # "" THEN w
          ELSE InitColLoopX(w.rows, i, x + 1, stop, strict)

RECURSIVE InitColLoop(_, _, _, _, _)
\* for i in range(self.col_count): ...
InitColLoop(rows, i, col_count, max_col_size, strict) ==
  IF i >= col_count THEN [err |-> "", rows |-> rows]
  ELSE IF get_col_err(rows, i, strict) # ""
  THEN [err |-> "IndexError", rows |-> rows]
  ELSE IF Len(rows) < max_col_size
  THEN LET w == InitColLoopX(rows, i, Len(rows), max_col_size - Len(rows), strict)
       IN IF w.err # "" THEN w
          ELSE InitColLoop(w.rows, i + 1, col_count, max_col_size, strict)
  ELSE InitColLoop(rows, i + 1, col_count, max_col_size, strict)

\* first block: rows shorter than len(max(rows)) are extended by
\* max_row_size - min_row_size cells
InitPadRows(rows, max_row_size, min_row_size) ==
  IF min_row_size < max_row_size
  THEN [i \in 1..Len(rows) |->
          IF Len(rows[i]) = max_row_size THEN rows[i]
          ELSE rows[i] \o Nones(max_row_size - min_row_size)]
  ELSE rows

\* CSV.__init__(rows): the grid it leaves in self._rows, or the exception
CSVInit(rows, strict) ==
  LET mx == PyMax(rows)
      mn == PyMin(rows)
      rows1 == InitPadRows(rows, Len(mx.val), Len(mn.val))
      col_lengths  == {Len(rows1[i]) : i \in 1..Len(rows1)}
      max_col_size == Max(col_lengths)
      min_col_size == CHOOSE x \in col_lengths : \A y \in col_lengths : x <= y
      cc == PyMax(rows1)
  IN IF mx.err # "" THEN [err |-> mx.err, rows |-> rows]
     ELSE IF mn.err # "" THEN [err |-> mn.err, rows |-> rows]
     ELSE IF max_col_size > min_col_size
     THEN IF cc.err # "" THEN [err |-> cc.err, rows |-> rows1]
          ELSE InitColLoop(rows1, 0, Len(cc.val), max_col_size, strict)
     ELSE [err |-> "", rows |-> rows1]

\* ------------------------------------------------------------------------
\* CSV.from_str
\* ------------------------------------------------------------------------
RECURSIVE TokenLoopNoBreak(_, _, _, _, _, _)
\* the token loop without its break: tokens after the end-of-input token
\* are taken as well
TokenLoopNoBreak(regex_data, i, rows_in, current_row, c, r) ==
  IF i > Len(regex_data) THEN rows_in
  ELSE LET m == regex_data[i]
       IN IF m.term = <<c>>
          THEN TokenLoopNoBreak(regex_data, i + 1, rows_in,
                                Append(current_row, m.cell), c, r)
          ELSE TokenLoopNoBreak(regex_data, i + 1,
                                Append(rows_in, Append(current_row, m.cell)), <<>>, c, r)

RECURSIVE TokenLoopNoReset(_, _, _, _, _, _)
\* the token loop that closes a row on rowend but keeps filling it
TokenLoopNoReset(regex_data, i, rows_in, current_row, c, r) ==
  IF i > Len(regex_data) THEN rows_in
  ELSE LET m == regex_data[i]
       IN IF m.term = <<c>>
          THEN TokenLoopNoReset(regex_data, i + 1, rows_in,
                                Append(current_row, m.cell), c, r)
          ELSE IF m.term = <<r>>
          THEN TokenLoopNoReset(regex_data, i + 1,
                                Append(rows_in, Append(current_row, m.cell)),
                                Append(current_row, m.cell), c, r)
          ELSE Append(rows_in, Append(current_row, m.cell))

RECURSIVE TokenLoop(_, _, _, _, _, _)
\* for m in regex_data: the cell joins current_row; a rowend terminator
\* closes the row; any other terminator but cellend closes it and breaks
TokenLoop(regex_data, i, rows_in, current_row, c, r) ==
  IF i > Len(regex_data) THEN rows_in
  ELSE LET m == regex_data[i]
       IN IF m.term = <<c>>
          THEN TokenLoop(regex_data, i + 1, rows_in, Append(current_row, m.cell), c, r)
          ELSE IF m.term = <<r>>
          THEN TokenLoop(regex_data, i + 1,
                         Append(rows_in, Append(current_row, m.cell)), <<>>, c, r)
          ELSE Append(rows_in, Append(current_row, m.cell))

RECURSIVE cell_enclosed_finditer(_, _, _, _, _)
\* re.finditer(QUOTED_CELL_RE, s), e[ecr]*: the matched strings
cell_enclosed_finditer(s, p, c, r, e) ==
  IF p > Len(s) THEN <<>>
  ELSE IF s[p] = e
  THEN LET Special(ch) == ch \in {e, c, r}
           run == RunLen(s, p + 1, Special)
       IN <<SubText(s, p, p + run)>> \o cell_enclosed_finditer(s, p + run + 1, c, r, e)
  ELSE cell_enclosed_finditer(s, p + 1, c, r, e)

RECURSIVE cell_escaped_finditer(_, _, _, _, _)
\* re.finditer(ESCAPED_CELL_RE, s), e[ecr]e: the matched strings
cell_escaped_finditer(s, p, c, r, e) ==
  IF p + 2 > Len(s) THEN <<>>
  ELSE IF s[p] = e /\ s[p + 1] \in {e, c, r} /\ s[p + 2] = e
  THEN <<SubText(s, p, p + 2)>> \o cell_escaped_finditer(s, p + 3, c, r, e)
  ELSE cell_escaped_finditer(s, p + 1, c, r, e)

\* the unescape step with the wrapped test on the first character alone
UnescapeCellFirstOnly(cell, c, r, e) ==
  IF Len(cell) < 1 THEN [err |-> "", val |-> cell]
  ELSE IF cell[1] = e
  THEN LET inner == SubText(cell, 2, Len(cell) - 1)
           ma    == cell_enclosed_finditer(inner, 1, c, r, e)
       IN IF \E k \in 1..Len(ma) : Len(ma[k]) < 2
          THEN [err |-> "IndexError", val |-> inner]
          ELSE [err |-> "", val |-> inner]
  ELSE [err |-> "", val |-> cell]

\* The unescape step of one cell.  str.replace returns a new string that
\* the code drops, so a wrapped cell only loses its outer pair; evaluating
\* matched_str[1] raises IndexError on a match of one character.
UnescapeCell(cell, c, r, e) ==
  IF Len(cell) < 1 THEN [err |-> "", val |-> cell]
  ELSE IF cell[1] = e /\ cell[Len(cell)] = e
  THEN LET inner == SubText(cell, 2, Len(cell) - 1)
           ma    == cell_enclosed_finditer(inner, 1, c, r, e)
       IN IF \E k \in 1..Len(ma) : Len(ma[k]) < 2
          THEN [err |-> "IndexError", val |-> inner]
          ELSE [err |-> "", val |-> inner]
  ELSE IF Len(cell_escaped_finditer(cell, 1, c, r, e)) > 0
  THEN [err |-> "", val |-> cell]
  ELSE [err |-> "", val |-> cell]

\* the unescape pass over rows_in
UnescapeRows(rows_in, c, r, e) ==
  LET U(i, x) == UnescapeCell(rows_in[i][x], c, r, e)
  IN IF \E i \in 1..Len(rows_in) : \E x \in 1..Len(rows_in[i]) : U(i, x).err # ""
     THEN [err |-> "IndexError", rows |-> rows_in]
     ELSE [err |-> "",
           rows |-> [i \in 1..Len(rows_in) |->
                       [x \in 1..Len(rows_in[i]) |-> PyStr(U(i, x).val)]]]

\* CSV.from_str(data, cellend=c, rowend=r, escape=e): the tokens, the rows
\* of the token loop, and the grid of the instance it returns
from_str(data, c, r, e, strict) ==
  LET regex_data == csv_from_str_regex(data, c, r, e)
      rows_in    == TokenLoop(regex_data, 1, <<>>, <<>>, c, r)
      un         == UnescapeRows(rows_in, c, r, e)
      made       == CSVInit(un.rows, strict)
  IN [regex_data |-> regex_data,
      rows_in    |-> rows_in,
      err        |-> IF un.err # "" THEN un.err ELSE made.err,
      rows       |-> IF un.err # "" THEN <<>> ELSE made.rows,
      custom     |-> <<c, r, e>> # DefaultTriple]

\* ------------------------------------------------------------------------
\* CSV.to_str and str_from_cell
\* ------------------------------------------------------------------------
Digit(d) == <<"0", "1", "2", "3", "4", "5", "6", "7", "8", "9">>[d + 1]

RECURSIVE StrOfNat(_)
StrOfNat(n) == IF n < 10 THEN <<Digit(n)>> ELSE StrOfNat(n \div 10) \o <<Digit(n % 10)>>

\* str(x) of a cell that is not a str nor None
PyStrOf(x) ==
  IF x.t = "bool" THEN (IF x.n = 1 THEN <<"T", "r", "u", "e">>
                        ELSE <<"F", "a", "l", "s", "e">>)
  ELSE IF x.n < 0 THEN <<"-">> \o StrOfNat(0 - x.n) ELSE StrOfNat(x.n)

\* the text of a cell with the blank argument ignored
TextFormNoBlank(x, blank) ==
  IF x.t = "str" THEN x.v
  ELSE IF x.t = "None" THEN <<>>
  ELSE PyStrOf(x)

\* lines 495-499 of to_str: the text a cell is replaced by
TextForm(x, blank) ==
  IF x.t = "str" THEN x.v
  ELSE IF x.t = "None" THEN blank
  ELSE PyStrOf(x)

\* the characters str_from_cell looks for: the module's compiled default
\* class when compile_regex() has run, else the parent's custom class when
\* from_str stored one, else the default class
EscapeChars(triple, uses_custom, compiled) ==
  IF compiled THEN {QUOTE, COMMA, NL}
  ELSE IF uses_custom THEN {triple[3], triple[1], triple[2]}
  ELSE {QUOTE, COMMA, NL}

\* str_from_cell(cell, parent); the replace inside the loop is dropped
str_from_cell(cell, triple, uses_custom, compiled) ==
  LET matches == {i \in 1..Len(cell) : cell[i] \in EscapeChars(triple, uses_custom, compiled)}
  IN IF Cardinality(matches) > 0 THEN <<triple[3]>> \o cell \o <<triple[3]>>
     ELSE cell

\* the grid to_str leaves behind: row_out is the row itself
ToStrRows(rws, blank, triple, uses_custom, compiled) ==
  [i \in 1..Len(rws) |->
     [x \in 1..Len(rws[i]) |->
        PyStr(str_from_cell(TextForm(rws[i][x], blank), triple, uses_custom, compiled))]]

\* the text to_str returns
ToStrText(rws, blank, triple, uses_custom, compiled) ==
  LET out == ToStrRows(rws, blank, triple, uses_custom, compiled)
      lines == [i \in 1..Len(out) |->
                  Join([x \in 1..Len(out[i]) |-> out[i][x].v], <<triple[1]>>)]
  IN Join(lines, <<triple[2]>>)

\* ------------------------------------------------------------------------
\* The accessors that change the grid, and to_list.  Each gives the rows as
\* the call leaves them, also when it raises part of the way.
\* ------------------------------------------------------------------------
\* CSV.__setitem__ with an int key and a list value
setitem_row(rows, key, value, strict) ==
  IF Len(rows) = 0 THEN [err |-> "IndexError", rows |-> rows]
  ELSE LET wide   == Len(value) > Len(rows[1]) - 1
           rows1  == IF wide /\ ~strict THEN set_column_count(rows, key) ELSE rows
           rowOut == key > Len(rows1) - 1
           rows2  == IF rowOut /\ ~strict THEN set_row_count(rows1, key) ELSE rows1
       IN IF wide /\ strict THEN [err |-> "IndexError", rows |-> rows]
          ELSE IF rowOut /\ strict THEN [err |-> "IndexError", rows |-> rows1]
          ELSE IF key + 1 > Len(rows2) THEN [err |-> "IndexError", rows |-> rows2]
          ELSE [err |-> "", rows |-> [rows2 EXCEPT ![key + 1] = value]]

\* CSV.append_row
append_row(rows, row) ==
  IF Len(rows) = 0 THEN [err |-> "IndexError", rows |-> rows]
  ELSE [err |-> "",
        rows |-> Append(rows, IF Len(row) < Len(rows[1])
                              THEN row \o Nones(Len(rows[1]) - Len(row))
                              ELSE row)]

\* CSV.append_col: rows 0..len(column)-1 get a cell each; a column longer
\* than the grid raises after the rows there are were extended
append_col(rows, column) ==
  LET rows1 == IF Len(column) < Len(rows)
               THEN set_column_count(rows, Len(column)) ELSE rows
  IN [err  |-> IF Len(column) > Len(rows1) THEN "IndexError" ELSE "",
      rows |-> [i \in 1..Len(rows1) |->
                  IF i <= Len(column) THEN Append(rows1[i], column[i])
                  ELSE rows1[i]]]

\* list == list
RowEq(a, b) == Len(a) = Len(b) /\ \A x \in 1..Len(a) : CellEq(a[x], b[x])

\* rows.index(row) for the row at position k: the first equal row
IndexOf(rws, k) == CHOOSE p \in 1..k : /\ RowEq(rws[p], rws[k])
                                       /\ \A q \in 1..(p - 1) : ~RowEq(rws[q], rws[k])

\* a dict as the set of its <<key, value>> pairs: row_out after
\* row_out[headers[index]] = cell for every index, later ones overwriting
DictOf(headers, row) ==
  {<<headers[i], row[i]>> :
     i \in {i \in 1..Len(row) : \A j \in (i + 1)..Len(row) : headers[j] # headers[i]}}

PyDict(d) == [t |-> "dict", v |-> d, n |-> 0]

\* lines 534-546: headers that are not str become their str() form
CheckedHeaders(headers) ==
  [i \in 1..Len(headers) |->
     IF headers[i].t = "str" THEN headers[i] ELSE PyStr(PyStrOf(headers[i]))]

\* CSV.to_list(headers=...): hdr tells whether headers were given; without
\* them the first row is taken as the headers and deleted from the grid
to_list(rows, headers, hdr) ==
  IF ~hdr /\ Len(rows) = 0
  THEN [err |-> "IndexError", rows |-> rows, out |-> <<>>]
  ELSE IF hdr /\ \E i \in 1..Len(headers) : headers[i].t = "None"
  THEN [err |-> "TypeError", rows |-> rows, out |-> <<>>]
  ELSE LET hs  == IF hdr THEN CheckedHeaders(headers) ELSE rows[1]
           rws == IF hdr THEN rows ELSE Tail(rows)
           filled == {IndexOf(rws, k) : k \in 1..Len(rws)}
       IN IF \E k \in 1..Len(rws) : Len(rws[k]) > Len(hs)
          THEN [err |-> "IndexError", rows |-> rws, out |-> <<>>]
          ELSE [err |-> "", rows |-> rws,
                out |-> [p \in 1..Len(rws) |->
                           IF p \in filled THEN PyDict(DictOf(hs, rws[p]))
                           ELSE PyNone]]

\* ------------------------------------------------------------------------
\* CSV.to_json: json.dumps of what to_list() returns
\* ------------------------------------------------------------------------
\* a character inside a JSON string
JsonChar(ch) ==
  IF ch = QUOTE THEN <<"\\", QUOTE>>
  ELSE IF ch = NL THEN <<"\\", "n">>
  ELSE <<ch>>

\* a str as a JSON string
JsonStr(text) ==
  <<QUOTE>> \o Join([i \in 1..Len(text) |-> JsonChar(text[i])], <<>>) \o <<QUOTE>>

\* None, a bool or an int as JSON
JsonScalar(x) ==
  IF x.t = "None" THEN <<"n", "u", "l", "l">>
  ELSE IF x.t = "bool" THEN (IF x.n = 1 THEN <<"t", "r", "u", "e">>
                             ELSE <<"f", "a", "l", "s", "e">>)
  ELSE PyStrOf(x)

\* a cell as a JSON value, and as the key of a JSON object
JsonValue(x) == IF x.t = "str" THEN JsonStr(x.v) ELSE JsonScalar(x)
JsonKey(x) == IF x.t = "str" THEN JsonStr(x.v) ELSE JsonStr(JsonScalar(x))

\* the dict row_out as JSON: the keys in the order they were first set,
\* each with the value set last
JsonDict(headers, row) ==
  LET idx    == [i \in 1..Len(row) |-> i]
      firsts == SelectSeq(idx, LAMBDA i : \A j \in 1..(i - 1) : headers[j] # headers[i])
      last(i) == Max({j \in 1..Len(row) : headers[j] = headers[i]})
      items  == [k \in 1..Len(firsts) |->
                   JsonKey(headers[firsts[k]]) \o <<":", " ">>
                     \o JsonValue(row[last(firsts[k])])]
  IN <<"{">> \o Join(items, <<",", " ">>) \o <<"}">>

\* CSV.to_json(root_name=...): has_root tells whether root_name was given;
\* headers are not passed on, so the first row is deleted from the grid
to_json(rows, root_name, has_root) ==
  LET l == to_list(rows, <<>>, FALSE)
  IN IF l.err # "" THEN [err |-> l.err, rows |-> l.rows, out |-> <<>>]
     ELSE LET hs == rows[1]
              entries == [p \in 1..Len(l.out) |->
                            IF l.out[p].t = "dict" THEN JsonDict(hs, l.rows[p])
                            ELSE JsonScalar(PyNone)]
              list == <<"[">> \o Join(entries, <<",", " ">>) \o <<"]">>
          IN [err |-> "", rows |-> l.rows,
              out |-> IF has_root
                      THEN <<"{">> \o JsonStr(root_name) \o <<":", " ">> \o list \o <<"}">>
                      ELSE list]

\* ------------------------------------------------------------------------
\* State
\* ------------------------------------------------------------------------
VARIABLES
  regexp_is_compiled,  \* module global _regexp_is_compiled
  strict_tables,       \* module global strict_tables
  rows,                \* self._rows of the instance the caller holds
  cellend,             \* self._cellend
  rowend,              \* self._rowend
  escape,              \* self._escape
  uses_custom_regex,   \* self.uses_custom_regex
  op,                  \* the last call made
  given,               \* the <<cellend, rowend, escape>> it was given
  raised,              \* the exception it raised, "" when it returned
  ret,                 \* the text the last to_str returned
  data,                \* the text the last from_str was given
  regex_data,          \* the tokens of the last from_str
  rows_in,             \* the rows its token loop built
  before,              \* the rows as they were when the last call began
  blank,               \* the blank argument of the last to_str
  n_to_str,            \* to_str calls made on the instance
  args,                \* the arguments of the last accessor call
  got,                 \* what the last csv[row, col] or to_json returned
  list_out,            \* the list the last to_list returned
  n_ops                \* accessor calls that changed the grid

vars == <<regexp_is_compiled, strict_tables, rows, cellend, rowend, escape,
          uses_custom_regex, op, given, raised, ret, data, regex_data,
          rows_in, before, blank, n_to_str, args, got, list_out, n_ops>>

\* what the accessor calls leave behind for the properties
acc == <<args, got, list_out, n_ops>>

Triple == <<cellend, rowend, escape>>

\* ------------------------------------------------------------------------
\* Inputs
\* ------------------------------------------------------------------------
\* characters of the texts parsed under a triple
Alphabet(t) == {"a", NL, t[1], t[2], t[3]}

Texts(t) == UNION {[1..n -> Alphabet(t)] : n \in 0..MaxLen}

\* cells of the grids handed to the constructor under a triple
CellVals(t) == {PyNone, PyStr(<<"a">>), PyStr(<<t[1]>>), PyStr(<<t[2]>>),
                PyStr(<<t[3]>>), PyInt(7), PyBool(TRUE)}

RECURSIVE Sum(_)
Sum(ns) == IF Len(ns) = 0 THEN 0 ELSE Head(ns) + Sum(Tail(ns))

\* the row lengths of the grids handed to the constructor
Shapes == {ns \in UNION {[1..m -> 0..MaxCols] : m \in 1..MaxRows} :
             Sum(ns) <= MaxCells}

\* the grids of given row lengths
RECURSIVE GridsOf(_, _)
GridsOf(ns, t) ==
  IF Len(ns) = 0 THEN {<<>>}
  ELSE {<<r>> \o g : r \in [1..Head(ns) -> CellVals(t)],
                     g \in GridsOf(Tail(ns), t)}

Blanks == {<<>>, <<"-">>}

\* cells of the grids the accessors work on
PlainVals == {PyNone, PyStr(<<"a">>), PyInt(7), PyBool(TRUE)}

RECURSIVE PlainGrids(_)
PlainGrids(ns) ==
  IF Len(ns) = 0 THEN {<<>>}
  ELSE {<<r>> \o g : r \in [1..Head(ns) -> PlainVals], g \in PlainGrids(Tail(ns))}

\* row and column indexes, the first index past the bounds included
RowIndexes == 0..MaxRows
ColIndexes == 0..MaxCols

\* the value written, and the lists handed to csv[row] = ..., append_row
\* and append_col
NewVal == PyStr(<<"x">>)
ListArgs == {[j \in 1..n |-> NewVal] : n \in 0..(MaxCols + 1)}

\* root names handed to to_json, None being its default
RootArgs == {PyNone, PyStr(<<"r">>)}

\* headers handed to to_list
HeaderArgs == {<<PyStr(<<"h">>)>>, <<PyStr(<<"h">>), PyStr(<<"k">>)>>,
               <<PyInt(7)>>, <<PyNone>>}

\* the arguments of an accessor call: csv[row, col], csv[row, col] = val,
\* csv[row] = list, append_row(list), append_col(list), to_list(headers=list)
\* and to_json(root_name=val)
\* (hdr tells whether headers were given), and strict_tables as the call
\* found it
NoArgs == [row |-> 0, col |-> 0, val |-> PyNone, list |-> <<>>, hdr |-> FALSE,
           strict |-> FALSE]

\* ------------------------------------------------------------------------
\* Init: the module as imported; the caller holds no instance yet.  A run
\* makes one instance, by CSV(...) or by CSV.from_str(...), and then works
\* on it: a later constructor call would replace every field of it.
\* ------------------------------------------------------------------------
Init ==
  /\ regexp_is_compiled = FALSE
  /\ strict_tables = FALSE
  /\ rows = <<>>
  /\ cellend = COMMA
  /\ rowend = NL
  /\ escape = QUOTE
  /\ uses_custom_regex = FALSE
  /\ op = "import"
  /\ given = DefaultTriple
  /\ raised = ""
  /\ ret = <<>>
  /\ data = <<>>
  /\ regex_data = <<>>
  /\ rows_in = <<>>
  /\ before = <<>>
  /\ blank = <<>>
  /\ n_to_str = 0
  /\ args = NoArgs
  /\ got = PyNone
  /\ list_out = <<>>
  /\ n_ops = 0

\* ------------------------------------------------------------------------
\* Actions
\* ------------------------------------------------------------------------
\* compile_regex()
CompileRegex ==
  /\ ~regexp_is_compiled
  /\ regexp_is_compiled' = TRUE
  /\ UNCHANGED <<strict_tables, rows, cellend, rowend, escape, uses_custom_regex,
                 op, given, raised, ret, data, regex_data, rows_in, before, blank,
                 n_to_str, acc>>

\* the caller's instance after a call that returns a new one, or raises
NewInstance(r, t, custom) ==
  /\ raised' = r.err
  /\ IF r.err = ""
     THEN /\ rows' = r.rows
          /\ cellend' = t[1]
          /\ rowend' = t[2]
          /\ escape' = t[3]
          /\ uses_custom_regex' = custom
          /\ n_to_str' = 0
     ELSE UNCHANGED <<rows, cellend, rowend, escape, uses_custom_regex, n_to_str>>

\* CSV(rows=g, cellend=t[1], rowend=t[2], escape=t[3])
Construct(g, t) ==
  /\ op = "import"
  /\ NewInstance(CSVInit(g, strict_tables), t, FALSE)
  /\ op' = "CSV"
  /\ given' = t
  /\ data' = <<>>
  /\ regex_data' = <<>>
  /\ rows_in' = <<>>
  /\ ret' = <<>>
  /\ before' = g
  /\ blank' = <<>>
  /\ UNCHANGED <<regexp_is_compiled, strict_tables, acc>>

\* CSV.from_str(d, cellend=t[1], rowend=t[2], escape=t[3])
FromStr(d, t) ==
  LET r == from_str(d, t[1], t[2], t[3], strict_tables)
  IN /\ op = "import"
     /\ NewInstance(r, t, r.custom)
     /\ op' = "from_str"
     /\ given' = t
     /\ data' = d
     /\ regex_data' = r.regex_data
     /\ rows_in' = r.rows_in
     /\ ret' = <<>>
     /\ before' = <<>>
     /\ blank' = <<>>
     /\ UNCHANGED <<regexp_is_compiled, strict_tables, acc>>

\* self.to_str(blank=b) on the instance the last call returned
ToStr(b) ==
  /\ raised = ""
  /\ op \in {"CSV", "from_str", "to_str"}
  /\ n_to_str < MaxToStr
  /\ ret' = ToStrText(rows, b, Triple, uses_custom_regex, regexp_is_compiled)
  /\ rows' = ToStrRows(rows, b, Triple, uses_custom_regex, regexp_is_compiled)
  /\ before' = rows
  /\ blank' = b
  /\ n_to_str' = n_to_str + 1
  /\ op' = "to_str"
  /\ raised' = ""
  /\ data' = <<>>
  /\ regex_data' = <<>>
  /\ rows_in' = <<>>
  /\ UNCHANGED <<regexp_is_compiled, strict_tables, cellend, rowend, escape,
                 uses_custom_regex, given, acc>>

\* CSV.from_str(text, ...) on the text the first to_str of a grid returned,
\* under the grid's own triple
ParseBack ==
  /\ op = "to_str"
  /\ n_to_str = 1
  /\ LET r == from_str(ret, cellend, rowend, escape, strict_tables)
     IN /\ NewInstance(r, Triple, r.custom)
        /\ op' = "parse_back"
        /\ given' = Triple
        /\ data' = ret
        /\ regex_data' = r.regex_data
        /\ rows_in' = r.rows_in
  /\ UNCHANGED <<regexp_is_compiled, strict_tables, ret, before, blank, acc>>

\* pycsv.strict_tables = b
SetStrict(b) ==
  /\ strict_tables # b
  /\ strict_tables' = b
  /\ UNCHANGED <<regexp_is_compiled, rows, cellend, rowend, escape,
                 uses_custom_regex, op, given, raised, ret, data, regex_data,
                 rows_in, before, blank, n_to_str, acc>>

\* the caller holds an instance and no call has raised
HasInstance == op # "import" /\ raised = ""

\* what every accessor call leaves alone
AccessorFrame ==
  UNCHANGED <<regexp_is_compiled, strict_tables, cellend, rowend, escape,
              uses_custom_regex, given, ret, data, regex_data, rows_in, blank,
              n_to_str>>

\* csv[row, col]
GetItem(row, col) ==
  LET r == getitem_cell(rows, row, col, strict_tables)
  IN /\ HasInstance
     /\ op' = "getitem"
     /\ args' = [NoArgs EXCEPT !.row = row, !.col = col, !.strict = strict_tables]
     /\ raised' = r.err
     /\ got' = r.val
     /\ before' = rows
     /\ UNCHANGED <<rows, list_out, n_ops>>
     /\ AccessorFrame

\* a call that changes the grid: r is [err, rows] as the call leaves them
Mutation(name, a, r) ==
  /\ HasInstance
  /\ n_ops < MaxOps
  /\ op' = name
  /\ args' = [a EXCEPT !.strict = strict_tables]
  /\ raised' = r.err
  /\ rows' = r.rows
  /\ before' = rows
  /\ n_ops' = n_ops + 1
  /\ AccessorFrame

\* csv[row, col] = val
SetItem(row, col, val) ==
  /\ Mutation("setitem", [NoArgs EXCEPT !.row = row, !.col = col, !.val = val],
              setitem_cell(rows, row, col, val, strict_tables))
  /\ UNCHANGED <<got, list_out>>

\* csv[row] = list
SetRow(row, list) ==
  /\ Mutation("setrow", [NoArgs EXCEPT !.row = row, !.list = list],
              setitem_row(rows, row, list, strict_tables))
  /\ UNCHANGED <<got, list_out>>

\* csv.append_row(list)
AppendRow(list) ==
  /\ Mutation("append_row", [NoArgs EXCEPT !.list = list], append_row(rows, list))
  /\ UNCHANGED <<got, list_out>>

\* csv.append_col(list)
AppendCol(list) ==
  /\ Mutation("append_col", [NoArgs EXCEPT !.list = list], append_col(rows, list))
  /\ UNCHANGED <<got, list_out>>

\* csv.to_list(headers=list), csv.to_list() when hdr is FALSE
ToList(list, hdr) ==
  LET r == to_list(rows, list, hdr)
  IN /\ Mutation("to_list", [NoArgs EXCEPT !.list = list, !.hdr = hdr], r)
     /\ list_out' = r.out
     /\ UNCHANGED got

\* csv.to_json(root_name=root)
ToJson(root) ==
  LET r == to_json(rows, root.v, root.t = "str")
  IN /\ Mutation("to_json", [NoArgs EXCEPT !.val = root], r)
     /\ got' = IF r.err = "" THEN PyStr(r.out) ELSE got
     /\ UNCHANGED list_out

\* ------------------------------------------------------------------------
\* Specifications
\* ------------------------------------------------------------------------
\* the parser: texts are parsed, the grids they give are serialized
NextParse ==
  \/ op = "import" /\ \E t \in Triples : \E d \in Texts(t) : FromStr(d, t)
  \/ \E b \in Blanks : ToStr(b)
  \/ CompileRegex

SpecParse == Init /\ [][NextParse]_vars

\* the serializer: grids are constructed, serialized and parsed back
NextSer ==
  \/ op = "import" /\ \E t \in Triples : \E ns \in Shapes :
                        \E g \in GridsOf(ns, t) : Construct(g, t)
  \/ \E b \in Blanks : ToStr(b)
  \/ ParseBack
  \/ CompileRegex

SpecSer == Init /\ [][NextSer]_vars

\* the reads: grids are constructed in either mode and read
NextRead ==
  \/ op = "import" /\ \E ns \in Shapes : \E g \in PlainGrids(ns) :
                        Construct(g, DefaultTriple)
  \/ \E b \in BOOLEAN : SetStrict(b)
  \/ \E row \in RowIndexes : \E col \in ColIndexes : GetItem(row, col)

SpecRead == Init /\ [][NextRead]_vars

\* the writes: grids are constructed in either mode, changed and exported
NextWrite ==
  \/ op = "import" /\ \E ns \in Shapes : \E g \in PlainGrids(ns) :
                        Construct(g, DefaultTriple)
  \/ \E b \in BOOLEAN : SetStrict(b)
  \/ \E row \in RowIndexes : \E col \in ColIndexes : SetItem(row, col, NewVal)
  \/ \E row \in RowIndexes : \E list \in ListArgs : SetRow(row, list)
  \/ \E list \in ListArgs : AppendRow(list)
  \/ \E list \in ListArgs : AppendCol(list)
  \/ ToList(<<>>, FALSE)
  \/ \E list \in HeaderArgs : ToList(list, TRUE)
  \/ \E root \in RootArgs : ToJson(root)

SpecWrite == Init /\ [][NextWrite]_vars

Next == NextParse \/ NextSer \/ NextRead \/ NextWrite

Spec == Init /\ [][Next]_vars

\* ------------------------------------------------------------------------
\* Vocabulary of the properties
\* ------------------------------------------------------------------------
\* the text contains a character of the set
HasAny(text, S) == \E i \in 1..Len(text) : text[i] \in S

Specials(t) == {t[1], t[2], t[3]}

\* the text begins and ends with the character
Wrapped(text, e) == Len(text) >= 2 /\ text[1] = e /\ text[Len(text)] = e

\* positions of the cells of a grid
Cells(g) == {<<i, x>> \in (1..Len(g)) \X (1..(MaxLen + MaxCols + 1)) : x <= Len(g[i])}

\* the text a cell stands for: absent cells as b, numbers and booleans as
\* Python prints them
TextOf(x, b) ==
  CASE x.t = "None" -> b
    [] x.t = "str"  -> x.v
    [] x.t = "bool" -> IF x.n = 1 THEN <<"T", "r", "u", "e">>
                       ELSE <<"F", "a", "l", "s", "e">>
    [] x.t = "int"  -> <<(<<"0", "1", "2", "3", "4", "5", "6", "7", "8", "9">>)[x.n + 1]>>

RECURSIVE Doubled(_, _)
\* every character of S in the text preceded by one more e
Doubled(text, t) ==
  IF Len(text) = 0 THEN <<>>
  ELSE (IF text[1] \in Specials(t) THEN <<t[3], text[1]>> ELSE <<text[1]>>)
         \o Doubled(Tail(text), t)

RECURSIVE Collapsed(_, _)
\* every e followed by a character of the triple replaced by that character
Collapsed(text, t) ==
  IF Len(text) = 0 THEN <<>>
  ELSE IF Len(text) >= 2 /\ text[1] = t[3] /\ text[2] \in Specials(t)
  THEN <<text[2]>> \o Collapsed(SubText(text, 3, Len(text)), t)
  ELSE <<text[1]>> \o Collapsed(Tail(text), t)

RECURSIVE Split(_, _)
\* text.split(ch): the pieces between the occurrences of ch
Split(text, ch) ==
  IF ~HasAny(text, {ch}) THEN <<text>>
  ELSE LET p == CHOOSE i \in 1..Len(text) :
                  text[i] = ch /\ \A j \in 1..(i - 1) : text[j] # ch
       IN <<SubText(text, 1, p - 1)>> \o Split(SubText(text, p + 1, Len(text)), ch)

\* the number of occurrences of ch
Count(text, ch) == Cardinality({i \in 1..Len(text) : text[i] = ch})

\* the grid read off a text by splitting alone
SplitGrid(text, t) ==
  LET lines == Split(text, t[2])
  IN [i \in 1..Len(lines) |->
        LET pieces == Split(lines[i], t[1])
        IN [x \in 1..Len(pieces) |-> PyStr(pieces[x])]]

\* absent cells as ""
Normalized(g) ==
  [i \in 1..Len(g) |-> [x \in 1..Len(g[i]) |-> PyStr(TextOf(g[i][x], <<>>))]]

TextOrAbsent(g) == \A p \in Cells(g) : g[p[1]][p[2]].t \in {"str", "None"}

\* ------------------------------------------------------------------------
\* C1: round trip under the default triple: parsing the text to_str(blank="")
\* made of a grid of text or absent cells returns a grid with the rows, the
\* cells and the texts the grid had before it was serialized, absent cells
\* as "".
\* ------------------------------------------------------------------------
C1_RoundTrip ==
  (/\ op = "parse_back"
   /\ Triple = DefaultTriple
   /\ blank = <<>>
   /\ TextOrAbsent(before)
   /\ \A i \in 1..Len(before) : Len(before[i]) >= 1)
  => /\ raised = ""
     /\ rows = Normalized(before)

\* ------------------------------------------------------------------------
\* C2: escaping necessity: the text to_str emits for a cell begins and ends
\* with the grid's own escape character exactly when the cell's text
\* contains the grid's own cellend, rowend or escape; other cells are
\* emitted verbatim.
\* ------------------------------------------------------------------------
C2_EscapingNecessity ==
  op = "to_str" =>
    \A p \in Cells(before) :
      LET text == TextOf(before[p[1]][p[2]], blank)
          out  == rows[p[1]][p[2]].v
      IN /\ Wrapped(out, escape) <=> HasAny(text, Specials(Triple))
         /\ ~HasAny(text, Specials(Triple)) => out = text

\* ------------------------------------------------------------------------
\* C3: escaping rule: a cell that needs escaping is emitted as its text
\* wrapped in escape characters, every escape, cellend and rowend inside
\* preceded by one more escape character.
\* ------------------------------------------------------------------------
C3_EscapingRule ==
  op = "to_str" =>
    \A p \in Cells(before) :
      LET text == TextOf(before[p[1]][p[2]], blank)
          out  == rows[p[1]][p[2]].v
      IN HasAny(text, Specials(Triple)) =>
           /\ out = <<escape>> \o Doubled(text, Triple) \o <<escape>>
           /\ Len(out) = Len(text) + 2
                + Cardinality({i \in 1..Len(text) : text[i] \in Specials(Triple)})

\* ------------------------------------------------------------------------
\* Properties of the parser
\* ------------------------------------------------------------------------
Parsed == op \in {"from_str", "parse_back"}

\* the index of the first token whose terminator is neither cellend nor
\* rowend, 0 when there is none
FirstEnd(tokens, t) ==
  LET E == {k \in 1..Len(tokens) : tokens[k].term \notin {<<t[1]>>, <<t[2]>>}}
  IN IF E = {} THEN 0 ELSE CHOOSE k \in E : \A j \in E : k <= j

RECURSIVE Flatten(_)
\* the cells of a grid in reading order
Flatten(g) == IF Len(g) = 0 THEN <<>> ELSE g[1] \o Flatten(Tail(g))

\* what unescaping a wrapped token is to give: the outer pair stripped,
\* every escaped sequence inside replaced by the escaped character
Unescaped(token, t) ==
  IF Wrapped(token, t[3]) THEN Collapsed(SubText(token, 2, Len(token) - 1), t)
  ELSE token

\* ------------------------------------------------------------------------
\* C4: the unescaping pass turns a fully wrapped token into the token
\* without its outer escape pair and with every escaped sequence inside
\* (escape followed by escape, cellend or rowend) replaced by the escaped
\* character; empty tokens and tokens without an escape character pass
\* through unchanged.
\* ------------------------------------------------------------------------
C4_UnescapePass ==
  op = "from_str" =>
    \A p \in Cells(rows_in) :
      /\ raised = ""
      /\ rows[p[1]][p[2]] = PyStr(Unescaped(rows_in[p[1]][p[2]], given))

\* ------------------------------------------------------------------------
\* C5: a quoted span escape + t + escape, t free of the escape character
\* but free to hold cellend and rowend, is parsed as exactly one cell of
\* value t, alone or as a cell of a larger row.
\* ------------------------------------------------------------------------
C5_QuotedSpan ==
  (/\ op = "from_str"
   /\ Len(data) >= 2)
  => LET e == given[3]
         t == SubText(data, 2, Len(data) - 1)
     IN (/\ data[1] = e
         /\ data[Len(data)] = e
         /\ ~HasAny(t, {e}))
        => /\ raised = ""
           /\ rows = <<<<PyStr(t)>>>>

\* ------------------------------------------------------------------------
\* C6: unquoted parsing: a text without escape characters whose lines all
\* have the same number of cellend-delimited pieces is parsed into one row
\* per line, in order, each row holding that line's pieces, in order.
\* ------------------------------------------------------------------------
UniformLines(text, t) ==
  LET lines == Split(text, t[2])
  IN \A i \in 1..Len(lines) :
       Len(Split(lines[i], t[1])) = Len(Split(lines[1], t[1]))

C6_UnquotedParsing ==
  (/\ op = "from_str"
   /\ ~HasAny(data, {given[3]})
   /\ UniformLines(data, given))
  => /\ raised = ""
     /\ rows = SplitGrid(data, given)

\* a text of two lines of two cells has been parsed
C6_Witness ==
  /\ op = "from_str"
  /\ raised = ""
  /\ ~HasAny(data, {escape})
  /\ Len(rows) = 2
  /\ Len(rows[1]) = 2
  /\ Len(rows[2]) = 2
  /\ rows[1][1] = PyStr(<<"a">>)

\* ------------------------------------------------------------------------
\* C7: stop at end-of-input: the token loop takes the tokens in order and
\* stops at the first token whose terminator is neither cellend nor rowend;
\* that token's cell is the last cell of the last row the loop builds, the
\* row under construction is closed and included, and no later token adds
\* a cell or a row.
\* ------------------------------------------------------------------------
C7_StopAtEnd ==
  Parsed =>
    LET j == FirstEnd(regex_data, given)
    IN /\ j >= 1
       /\ Flatten(rows_in) = [k \in 1..j |-> regex_data[k].cell]
       /\ Len(rows_in) =
            1 + Cardinality({k \in 1..(j - 1) : regex_data[k].term = <<given[2]>>})
       /\ rows_in[Len(rows_in)][Len(rows_in[Len(rows_in)])] = regex_data[j].cell

\* C7 as first stated, of the grid from_str returns: the cell of the first
\* end-of-input token is the last cell of the last row of the result, and
\* the result holds the cells of the tokens up to it and no other
C7_StopAtEndOfResult ==
  (op = "from_str" /\ raised = "") =>
    LET j == FirstEnd(regex_data, Triple)
    IN /\ j >= 1
       /\ Len(Flatten(rows)) = j
       /\ rows[Len(rows)][Len(rows[Len(rows)])]
            = PyStr(UnescapeCell(regex_data[j].cell, cellend, rowend, escape).val)

\* a text not ending in rowend was parsed into two rows and the scanner
\* had a further, empty token after the one that ended the loop
C7_Witness ==
  /\ op = "from_str"
  /\ raised = ""
  /\ Len(data) >= 1
  /\ data[Len(data)] # rowend
  /\ Len(rows_in) = 2
  /\ FirstEnd(regex_data, Triple) < Len(regex_data)

\* ------------------------------------------------------------------------
\* C8: idempotence of unescaping: the unescape pass applied to a cell it
\* produced returns that cell again, provided the cell does not itself
\* begin and end with the escape character.
\* ------------------------------------------------------------------------
BeginsAndEnds(text, e) == Len(text) >= 1 /\ text[1] = e /\ text[Len(text)] = e

MapChar(ch, from, to) ==
  IF ch = from[1] THEN to[1]
  ELSE IF ch = from[2] THEN to[2]
  ELSE IF ch = from[3] THEN to[3]
  ELSE ch

MapText(text, from, to) == [i \in 1..Len(text) |-> MapChar(text[i], from, to)]

MapGrid(g, from, to) ==
  [i \in 1..Len(g) |->
     [x \in 1..Len(g[i]) |->
        IF g[i][x].t = "str" THEN PyStr(MapText(g[i][x].v, from, to)) ELSE g[i][x]]]

C9_ConfigurationConsistency ==
  (/\ op = "from_str"
   /\ raised = ""
   /\ Triple = CustomTriple
   /\ ~HasAny(data, Specials(DefaultTriple)))
  => LET d == from_str(MapText(data, CustomTriple, DefaultTriple),
                       COMMA, NL, QUOTE, strict_tables)
     IN /\ d.err = ""
        /\ rows = MapGrid(d.rows, DefaultTriple, CustomTriple)

\* ------------------------------------------------------------------------
\* C10: serializer structure: to_str(blank=b) does not raise; every cell is
\* emitted as its text (b for an absent cell, the str() form for a number or
\* a boolean), bare or wrapped in escape characters; the cells of a row are
\* joined by cellend and the rows by rowend, so that for texts free of
\* cellend, rowend and escape the result has rows - 1 rowend characters and
\* each row gives cells - 1 cellend characters.
\* ------------------------------------------------------------------------
RECURSIVE Separators(_)
\* cells - 1 summed over the rows that have cells
Separators(g) ==
  IF Len(g) = 0 THEN 0
  ELSE (IF Len(g[1]) >= 1 THEN Len(g[1]) - 1 ELSE 0) + Separators(Tail(g))

C10_SerializerStructure ==
  op = "to_str" =>
    /\ raised = ""
    /\ Len(rows) = Len(before)
    /\ \A i \in 1..Len(before) : Len(rows[i]) = Len(before[i])
    /\ \A p \in Cells(before) :
         LET text == TextOf(before[p[1]][p[2]], blank)
         IN rows[p[1]][p[2]].v \in {text, <<escape>> \o text \o <<escape>>}
    /\ (\A p \in Cells(before) :
          ~HasAny(TextOf(before[p[1]][p[2]], blank), Specials(Triple)))
       => /\ Count(ret, rowend) = Len(before) - 1
          /\ Count(ret, cellend) = Separators(before)
          /\ LET lines == Split(ret, rowend)
             IN /\ Len(lines) = Len(before)
                /\ \A i \in 1..Len(before) :
                     Len(before[i]) >= 1 =>
                       Split(lines[i], cellend)
                         = [x \in 1..Len(before[i]) |-> rows[i][x].v]

\* a grid of two rows holding an absent cell, a number and a boolean was
\* serialized with blank "-"
C10_Witness ==
  /\ op = "to_str"
  /\ blank = <<"-">>
  /\ n_to_str = 1
  /\ Len(before) = 2
  /\ \E p \in Cells(before) : before[p[1]][p[2]] = PyNone
  /\ \E p \in Cells(before) : before[p[1]][p[2]].t = "int"
  /\ \E p \in Cells(before) : before[p[1]][p[2]].t = "bool"
  /\ Count(ret, "-") >= 1
  /\ Count(ret, cellend) >= 1

\* ------------------------------------------------------------------------
\* C11: the serializer is read-only on the grid: when to_str(blank=b) has
\* returned every cell of the grid holds the value it held before the call,
\* and a second to_str(blank=b) on the grid returns the string the first
\* returned.
\* ------------------------------------------------------------------------
C11_SerializerReadOnly ==
  op = "to_str" =>
    /\ rows = before
    /\ ToStrText(rows, blank, Triple, uses_custom_regex, regexp_is_compiled) = ret

\* ------------------------------------------------------------------------
\* C12: no dependence on shared mutable state: the string to_str returns for
\* a grid is the string it returns when compile_regex() was never called,
\* whatever the grid's triple; it depends on the grid and its triple alone.
\* (from_str reads the module's compiled patterns only under the default
\* triple, and they are the default patterns.)
\* ------------------------------------------------------------------------
C12_NoSharedState ==
  op = "to_str" =>
    ret = ToStrText(before, blank, Triple, uses_custom_regex, FALSE)

\* ------------------------------------------------------------------------
\* Properties of the grid
\* ------------------------------------------------------------------------
\* the length of the longest row
Width(g) == Max({0} \cup {Len(g[i]) : i \in 1..Len(g)})

\* every row has the same length
Rectangular(g) == \A i \in 1..Len(g) : Len(g[i]) = Len(g[1])

\* out has the rows of inp, each extended with None to the longest of them
PaddedShape(inp, out) ==
  /\ Len(out) = Len(inp)
  /\ \A i \in 1..Len(inp) :
       /\ Len(out[i]) = Width(inp)
       /\ \A x \in 1..Len(out[i]) : x > Len(inp[i]) => out[i][x] = PyNone

\* and no cell of inp was changed
Padded(inp, out) ==
  /\ PaddedShape(inp, out)
  /\ \A i \in 1..Len(inp) : \A x \in 1..Len(inp[i]) : out[i][x] = inp[i][x]

\* ------------------------------------------------------------------------
\* C13: padding at construction: when CSV(rows) returns, every row of the
\* grid has the length of the longest input row, short rows extended with
\* None and no existing cell changed; the grid from_str returns has the
\* rows its token loop built, padded the same way.
\* ------------------------------------------------------------------------
C13_PaddingAtConstruction ==
  /\ (op = "CSV" /\ raised = "") => Padded(before, rows)
  /\ (Parsed /\ raised = "") => PaddedShape(rows_in, rows)

\* ------------------------------------------------------------------------
\* C14: bounds policy on read: csv[row, col] with row >= the row count or
\* col >= the length of that row returns None without raising when
\* strict_tables is False and raises IndexError when it is True; a read
\* inside the bounds returns the stored cell in both modes; no read changes
\* the grid.
\* ------------------------------------------------------------------------
InBounds(g, row, col) ==
  IF row < Len(g) THEN col < Len(g[row + 1]) ELSE FALSE

C14_BoundsPolicyOnRead ==
  op = "getitem" =>
    /\ rows = before
    /\ IF InBounds(before, args.row, args.col)
       THEN raised = "" /\ got = before[args.row + 1][args.col + 1]
       ELSE IF args.strict THEN raised = "IndexError"
       ELSE raised = "" /\ got = PyNone

\* in strict mode a read raised for a column that the row read does not
\* have and another row has
C14_Witness ==
  /\ op = "getitem"
  /\ args.strict
  /\ raised = "IndexError"
  /\ args.row < Len(before)
  /\ args.col >= Len(before[args.row + 1])
  /\ args.col < Width(before)

\* ------------------------------------------------------------------------
\* C15: growth on write: with strict_tables False, on a grid whose rows
\* all hold a cell, csv[row, col] = v with row >= the row count or
\* col >= the column count does not raise, grows
\* the grid with None-filled rows and columns so that (row, col) exists,
\* leaves every cell the grid had unchanged, and afterwards csv[row, col]
\* is v.
\* ------------------------------------------------------------------------
C15_GrowthOnWrite ==
  (/\ op = "setitem"
   /\ ~args.strict
   /\ \A i \in 1..Len(before) : Len(before[i]) >= 1
   /\ (args.row >= Len(before) \/ args.col >= Width(before)))
  => /\ raised = ""
     /\ InBounds(rows, args.row, args.col)
     /\ rows[args.row + 1][args.col + 1] = args.val
     /\ \A p \in Cells(before) : rows[p[1]][p[2]] = before[p[1]][p[2]]
     /\ \A p \in Cells(rows) :
          (p \notin Cells(before) /\ p # <<args.row + 1, args.col + 1>>)
            => rows[p[1]][p[2]] = PyNone

\* ------------------------------------------------------------------------
\* C16: strict mode on write: with strict_tables True, on a grid whose rows
\* have one length and hold a cell, csv[row, col] = v and csv[row] = list raise IndexError
\* exactly when they target a row or a column the grid does not hold, and
\* then the grid is unchanged; an assignment inside the bounds, a row
\* replaced by a list of the grid's column count included, does not raise
\* and stores the value.
\* ------------------------------------------------------------------------
C16_StrictModeOnWrite ==
  (/\ op \in {"setitem", "setrow"}
   /\ args.strict
   /\ Rectangular(before)
   /\ Width(before) >= 1)
  => LET outside == IF op = "setitem"
                    THEN ~InBounds(before, args.row, args.col)
                    ELSE args.row >= Len(before) \/ Len(args.list) > Width(before)
     IN IF outside THEN raised = "IndexError" /\ rows = before
        ELSE /\ raised = ""
             /\ rows = IF op = "setitem"
                       THEN [before EXCEPT ![args.row + 1][args.col + 1] = args.val]
                       ELSE [before EXCEPT ![args.row + 1] = args.list]

\* ------------------------------------------------------------------------
\* C17: list-of-mappings export, on a grid whose rows have one length:
\* to_list() returns one mapping per row after the first, in row order,
\* each taking the i-th cell of the first row (cells that differ from one
\* another) to the i-th cell of that row, also when two data rows are
\* equal; to_list(headers=h), h one text per column, returns one such
\* mapping per row, the first row included.
\* ------------------------------------------------------------------------
Distinct(seq) == \A i, j \in 1..Len(seq) : i # j => seq[i] # seq[j]

\* the mapping of the keys to the cells of a row
Mapping(keys, row) == {<<keys[i], row[i]>> : i \in 1..Len(row)}

C17_ListOfMappings ==
  (/\ op = "to_list"
   /\ Rectangular(before)
   /\ IF args.hdr
      THEN /\ Len(args.list) = Width(before)
           /\ \A i \in 1..Len(args.list) : args.list[i].t = "str"
           /\ Distinct(args.list)
      ELSE Len(before) >= 1 /\ Distinct(before[1]))
  => LET keys == IF args.hdr THEN args.list ELSE before[1]
         recs == IF args.hdr THEN before ELSE Tail(before)
     IN /\ raised = ""
        /\ Len(list_out) = Len(recs)
        /\ \A k \in 1..Len(recs) :
             /\ list_out[k].t = "dict"
             /\ list_out[k].v = Mapping(keys, recs[k])

\* ------------------------------------------------------------------------
\* C18: adjacent quoted cells: a text escape + s + escape + cellend +
\* escape + t + escape, s and t free of the escape character (and here of
\* rowend), is parsed into one row of the two cells s and t: each quoted
\* span ends at its own closing escape.
\* ------------------------------------------------------------------------
C18_AdjacentQuotedCells ==
  Parsed =>
    \A i \in 2..(Len(data) - 3) :
      LET e == given[3]
          s == SubText(data, 2, i - 1)
          t == SubText(data, i + 3, Len(data) - 1)
      IN (/\ data[1] = e
          /\ data[i] = e
          /\ data[i + 1] = given[1]
          /\ data[i + 2] = e
          /\ data[Len(data)] = e
          /\ ~HasAny(s, {e, given[2]})
          /\ ~HasAny(t, {e, given[2]}))
         => /\ raised = ""
            /\ rows = <<<<PyStr(s), PyStr(t)>>>>

\* ------------------------------------------------------------------------
\* C19: parser totality: under the default triple from_str returns a grid
\* for every text, never raising (the 'match of unknown type' exception
\* included); the grid has at least one row, every row has at least one
\* cell, and every cell the token loop placed is the text of its token,
\* unescaped.
\* ------------------------------------------------------------------------
C19_ParserTotality ==
  (op = "from_str" /\ given = DefaultTriple) =>
    /\ raised # "Exception"
    /\ raised = ""
    /\ Len(rows) >= 1
    /\ \A i \in 1..Len(rows) : Len(rows[i]) >= 1
    /\ \A p \in Cells(rows_in) :
         rows[p[1]][p[2]] = PyStr(UnescapeCell(rows_in[p[1]][p[2]], COMMA, NL, QUOTE).val)

\* ------------------------------------------------------------------------
\* C20: rectangularity: with strict_tables False, an append_row,
\* append_col, csv[row] = list or csv[row, col] = v that returns without
\* raising on a grid whose rows all have the same length (and hold a cell)
\* leaves a grid whose rows all have the same length; so does every
\* sequence of them.
\* ------------------------------------------------------------------------
C20_Rectangularity ==
  (/\ op \in {"append_row", "append_col", "setrow", "setitem"}
   /\ ~args.strict
   /\ raised = ""
   /\ Rectangular(before)
   /\ Width(before) >= 1)
  => Rectangular(rows)

\* ------------------------------------------------------------------------
\* C21: to_list and to_json are read-only views: when to_list(), with or
\* without headers, or to_json() has returned, the grid (here one whose
\* rows hold a cell) has the rows it had before, in the same order, the
\* first row included, so the row count is unchanged and the same to_list
\* call made again returns an equal list.
\* ------------------------------------------------------------------------
C21_ReadOnlyViews ==
  (/\ op \in {"to_list", "to_json"}
   /\ raised = ""
   /\ Width(before) >= 1)
  => /\ rows = before
     /\ Len(rows) = Len(before)
     /\ op = "to_list" =>
          LET again == to_list(rows, args.list, args.hdr)
          IN again.err = "" /\ again.out = list_out

====
